---- MODULE Spec2Model ----
(***************************************************************************)
(* Grafana Bridge plugin for Super Productivity (src/plugin.js).           *)
(*                                                                         *)
(* JavaScript values are records of one shape, tagged by their type, and   *)
(* JavaScript strings are sequences of one-character strings, so that the  *)
(* escaping and joining done by the line protocol encoder is computed      *)
(* character by character.                                                 *)
(***************************************************************************)
EXTENDS Integers, Sequences, FiniteSets, TLC

\* ------------------------------------------------------------ JS values

Undefined == [t |-> "undefined", n |-> 0, s |-> <<>>, b |-> FALSE]
Null == [t |-> "null", n |-> 0, s |-> <<>>, b |-> FALSE]
NaN == [t |-> "nan", n |-> 0, s |-> <<>>, b |-> FALSE]
Num(x) == [t |-> "number", n |-> x, s |-> <<>>, b |-> FALSE]
Str(x) == [t |-> "string", n |-> 0, s |-> x, b |-> FALSE]
Bool(x) == [t |-> "boolean", n |-> 0, s |-> <<>>, b |-> x]

\* typeof v === 'number' (NaN is a number)
IsNumber(v) == v.t \in {"number", "nan"}

\* The truthiness JavaScript gives a value in `a || b`, `!a`, `if (a)`.
Truthy(v) ==
  CASE v.t = "number" -> v.n # 0
    [] v.t = "string" -> v.s # <<>>
    [] v.t = "boolean" -> v.b
    [] OTHER -> FALSE

\* a || b
Or(a, b) == IF Truthy(a) THEN a ELSE b

Digits == <<"0", "1", "2", "3", "4", "5", "6", "7", "8", "9">>

RECURSIVE NatToStr(_)
\* String(n) of a non-negative integer: its decimal digits.
NatToStr(n) ==
  IF n < 10 THEN <<Digits[n + 1]>> ELSE NatToStr(n \div 10) \o <<Digits[(n % 10) + 1]>>

\* String(v)
JsString(v) ==
  CASE v.t = "number" -> NatToStr(v.n)
    [] v.t = "string" -> v.s
    [] v.t = "boolean" -> IF v.b THEN <<"t", "r", "u", "e">> ELSE <<"f", "a", "l", "s", "e">>
    [] v.t = "nan" -> <<"N", "a", "N">>
    [] v.t = "null" -> <<"n", "u", "l", "l">>
    [] OTHER -> <<"u", "n", "d", "e", "f", "i", "n", "e", "d">>

RECURSIVE Flatten(_)
\* The concatenation of a sequence of strings.
Flatten(ss) == IF ss = <<>> THEN <<>> ELSE Head(ss) \o Flatten(Tail(ss))

RECURSIVE Join(_, _)
\* Array.prototype.join
Join(ss, sep) ==
  IF ss = <<>> THEN <<>>
  ELSE IF Len(ss) = 1 THEN ss[1]
  ELSE ss[1] \o sep \o Join(Tail(ss), sep)

\* str.replace(/c/g, '\\' + c) for every character c of `chars`, in one pass.
BackslashBefore(str, chars) ==
  Flatten([i \in 1..Len(str) |-> IF str[i] \in chars THEN <<"\\", str[i]>> ELSE <<str[i]>>])

\* String.prototype.includes
Includes(str, sub) ==
  \E i \in 0..(Len(str) - Len(sub)) : SubSeq(str, i + 1, i + Len(sub)) = sub

\* A string literal of the source, as characters.
DEFAULT_MEASUREMENT ==
  <<"s", "u", "p", "e", "r", "p", "r", "o", "d", "_", "t", "a", "s", "k", "s">>
PRECISION_EQ == <<"p", "r", "e", "c", "i", "s", "i", "o", "n", "=">>
PRECISION_MS == <<"p", "r", "e", "c", "i", "s", "i", "o", "n", "=", "m", "s">>

\* ------------------------------------------------- line protocol encoder

\* An escapeTag that leaves the equals sign alone.
escapeTagNoEquals(str) ==
  IF str.t \in {"null", "undefined"} THEN <<>>
  ELSE BackslashBefore(JsString(str), {" ", ","})

\* escapeTag (also escapeFieldKey): '' for null/undefined, else a backslash
\* before every space, comma and equals sign.
escapeTag(str) ==
  IF str.t \in {"null", "undefined"} THEN <<>>
  ELSE BackslashBefore(JsString(str), {" ", ",", "="})

\* escapeStringField: replace(/"/g, '\\"') and then replace(/\\/g, '\\\\'),
\* in that order, between double quotes.
escapeStringField(str) ==
  <<"\"">> \o BackslashBefore(BackslashBefore(JsString(str), {"\""}), {"\\"}) \o <<"\"">>

\* The tag entries that survive the filter, rendered key=value.
TagEntries(item) ==
  LET keep(e) == e.v.t \notin {"null", "undefined"} /\ e.v # Str(<<>>)
      kept == SelectSeq(item.tags, keep)
  IN [i \in 1..Len(kept) |-> escapeTag(Str(kept[i].k)) \o <<"=">> \o escapeTag(kept[i].v)]

\* One field value: a number as String(v), a boolean as true/false, anything
\* else as a quoted string.
FieldValue(v) ==
  IF IsNumber(v) THEN JsString(v)
  ELSE IF v.t = "boolean" THEN JsString(v)
  ELSE escapeStringField(v)

\* The field entries that survive the filter, rendered key=value.
FieldEntries(item) ==
  LET keep(e) == e.v.t \notin {"null", "undefined"}
      kept == SelectSeq(item.fields, keep)
  IN [i \in 1..Len(kept) |-> escapeTag(Str(kept[i].k)) \o <<"=">> \o FieldValue(kept[i].v)]

\* toLineProtocol(item), called when Date.now() is `now`.
toLineProtocol(item, now) ==
  LET ts == IF item.timestamp.t = "number" THEN item.timestamp.n ELSE now
      tags == Join(TagEntries(item), <<",">>)
      fields == Join(FieldEntries(item), <<",">>)
      tagPart == IF tags # <<>> THEN <<",">> \o tags ELSE <<>>
  IN IF fields = <<>> THEN <<>>
     ELSE escapeTag(item.measurement) \o tagPart \o <<" ">> \o fields \o <<" ">> \o NatToStr(ts)

\* ------------------------------------------------------ delivery client

\* A configuration object; obj is FALSE for a missing (undefined) one.
NoConfig == [obj |-> FALSE, url |-> Undefined, token |-> Undefined, measurement |-> Undefined]
Config(u, k, m) == [obj |-> TRUE, url |-> u, token |-> k, measurement |-> m]

\* The URL of the write: precision=ms appended unless a precision is given.
TargetUrl(url) ==
  IF Includes(url, PRECISION_EQ) THEN url
  ELSE url \o (IF Includes(url, <<"?">>) THEN <<"&">> ELSE <<"?">>) \o PRECISION_MS

\* A body that keeps the empty lines.
BodyLinesUnfiltered(items, now) ==
  Join([i \in 1..Len(items) |-> toLineProtocol(items[i], now)], <<"\n">>)

\* items.map(toLineProtocol).filter(line => line).join('\n')
BodyLines(items, now) ==
  LET lines == [i \in 1..Len(items) |-> toLineProtocol(items[i], now)]
      nonEmpty(l) == l # <<>>
  IN Join(SelectSeq(lines, nonEmpty), <<"\n">>)

\* sendToGrafana up to its first suspension: it throws the configuration
\* error, returns without a request, or issues the fetch.
SendStart(payload, cfgOverride, globalCfg, now) ==
  LET useConfig == IF cfgOverride.obj THEN cfgOverride ELSE globalCfg
      bodyLines == BodyLines(payload, now)
  IN IF ~Truthy(useConfig.url) \/ ~Truthy(useConfig.token)
     THEN IF cfgOverride.obj
          THEN [kind |-> "throw", url |-> <<>>, token |-> <<>>, body |-> <<>>]
          ELSE [kind |-> "return", url |-> <<>>, token |-> <<>>, body |-> <<>>]
     ELSE IF bodyLines = <<>>
          THEN [kind |-> "return", url |-> <<>>, token |-> <<>>, body |-> <<>>]
          ELSE [kind |-> "fetch", url |-> TargetUrl(JsString(useConfig.url)),
                token |-> JsString(useConfig.token), body |-> bodyLines]

\* A response of the endpoint: its status, its status text and its body, or
\* no body when reading it fails.
Response(status, statusText, readable, body) ==
  [status |-> status, statusText |-> statusText, readable |-> readable, body |-> body]
NoResponse == Response(0, <<>>, FALSE, <<>>)

S_UpstreamError == <<"U", "p", "s", "t", "r", "e", "a", "m", " ", "e", "r", "r", "o", "r", " ">>
S_CouldNotRead ==
  <<"(", "C", "o", "u", "l", "d", " ", "n", "o", "t", " ", "r", "e", "a", "d", " ", "r", "e", "s", "p", "o", "n", "s", "e", " ", "b", "o", "d", "y", ")">>
S_Ellipsis == <<".", ".", ".">>

\* The length beyond which the text of the response is cut.
ERR_TEXT_MAX == 500

\* An error text carried whole, whatever its length.
cleanErrUncut(errText) == errText

\* errText.length > 500 ? errText.substring(0, 500) + '...' : errText
cleanErr(errText) ==
  IF Len(errText) > ERR_TEXT_MAX THEN SubSeq(errText, 1, ERR_TEXT_MAX) \o S_Ellipsis ELSE errText

\* The message of the error sendToGrafana throws for a response that is not
\* ok: built from the status and the body read, caught by the outer catch
\* and thrown again as new Error(e.message || String(e)).
UpstreamError(response) ==
  LET errText == IF response.readable THEN response.body ELSE S_CouldNotRead
      message == S_UpstreamError \o NatToStr(response.status) \o <<" ", "(">>
                   \o response.statusText \o <<")", ":", " ">> \o cleanErr(errText)
  IN IF message # <<>> THEN message ELSE <<"E", "r", "r", "o", "r">>

\* ------------------------------------------------------- metadata cache

\* obj[key] of a lookup table (a function from ids to titles).
MapGet(m, key) == IF key \in DOMAIN m THEN m[key] ELSE Undefined

\* list.reduce((acc, x) => ({ ...acc, [x.id]: x.title }), {}): the title of
\* the last entry of each id.
BuildMap(list) ==
  [id \in {list[i].id : i \in 1..Len(list)} |->
     LET last == CHOOSE i \in 1..Len(list) :
                   /\ list[i].id = id
                   /\ \A j \in (i + 1)..Len(list) : list[j].id # id
     IN Str(list[last].title)]

\* --------------------------------------------------------- task enricher

S_Unassigned == <<"U", "n", "a", "s", "s", "i", "g", "n", "e", "d">>
S_Default == <<"D", "e", "f", "a", "u", "l", "t">>
S_unknown == <<"u", "n", "k", "n", "o", "w", "n">>
S_Untitled == <<"U", "n", "t", "i", "t", "l", "e", "d">>

\* A task record of the host; tagIds is a sequence of ids (empty when absent).
Task(id, title, projectId, tagIds, isDone, timeSpent, timeEstimate, updated, created) ==
  [id |-> id, title |-> title, projectId |-> projectId, tagIds |-> tagIds,
   isDone |-> isDone, timeSpent |-> timeSpent, timeEstimate |-> timeEstimate,
   updated |-> updated, created |-> created]

\* new Date(x).getTime(): a number is its own time, anything else is no date.
DateTime(x) == IF x.t = "number" THEN Num(x.n) ELSE NaN

\* A timestamp that is always the time of the call.
TaskTimeClock(task, now) == Num(now)

\* new Date(task.updated || task.created || Date.now()).getTime()
TaskTime(task, now) == DateTime(Or(Or(task.updated, task.created), Num(now)))

\* enrichTaskData(task, cfg), reading the two lookup tables, called when
\* Date.now() is `now`.  Task times are drawn so that the quotient is whole.
enrichTaskData(task, cfg, globalCfg, pMap, tMap, now) ==
  LET useConfig == IF cfg.obj THEN cfg ELSE globalCfg
      projectName == Or(MapGet(pMap, JsString(task.projectId)), Str(S_Unassigned))
      tagNames == [i \in 1..Len(task.tagIds) |->
                     Or(MapGet(tMap, task.tagIds[i]), Str(task.tagIds[i]))]
      first == IF tagNames = <<>> THEN Undefined ELSE tagNames[1]
      numSpent == task.timeSpent.t = "number"
  IN [measurement |-> Or(useConfig.measurement, Str(DEFAULT_MEASUREMENT)),
      tags |-> << [k |-> <<"p", "r", "o", "j", "e", "c", "t">>, v |-> projectName],
                  [k |-> <<"c", "o", "n", "t", "e", "x", "t">>, v |-> Or(first, Str(S_Default))],
                  [k |-> <<"t", "a", "s", "k", "_", "i", "d">>, v |-> Or(task.id, Str(S_unknown))],
                  [k |-> <<"i", "s", "_", "d", "o", "n", "e">>,
                   v |-> Str(JsString(Bool(Truthy(task.isDone))))] >>,
      fields |-> << [k |-> <<"d", "u", "r", "a", "t", "i", "o", "n", "_", "m", "s">>,
                     v |-> IF numSpent THEN task.timeSpent ELSE Num(0)],
                    [k |-> <<"t", "i", "t", "l", "e">>, v |-> Or(task.title, Str(S_Untitled))],
                    [k |-> <<"e", "s", "t", "i", "m", "a", "t", "e", "_", "m", "s">>,
                     v |-> IF task.timeEstimate.t = "number" THEN task.timeEstimate ELSE Num(0)],
                    [k |-> <<"e", "f", "f", "i", "c", "i", "e", "n", "c", "y", "_",
                             "r", "a", "t", "i", "o">>,
                     v |-> IF task.timeEstimate.t = "number" /\ task.timeEstimate.n > 0 /\ numSpent
                           THEN Num(task.timeSpent.n \div task.timeEstimate.n)
                           ELSE Num(1)] >>,
      timestamp |-> TaskTime(task, now)]

\* The heartbeat point of testConnection.
Heartbeat(cfgToTest, now) ==
  [measurement |-> Or(cfgToTest.measurement, Str(DEFAULT_MEASUREMENT)),
   tags |-> << [k |-> <<"s", "e", "r", "v", "i", "c", "e">>,
                v |-> Str(<<"g", "r", "a", "f", "a", "n", "a", "-", "b", "r", "i", "d", "g", "e">>)],
               [k |-> <<"t", "y", "p", "e">>,
                v |-> Str(<<"h", "e", "a", "r", "t", "b", "e", "a", "t">>)] >>,
   fields |-> << [k |-> <<"s", "t", "a", "t", "u", "s">>, v |-> Num(1)] >>,
   timestamp |-> Num(now)]

\* ------------------------------------------------------------- bounds

\* Hook events and control messages the host delivers in one run.
MaxHooks == 2
MaxMsgs == 2
\* The clock advances by TickMs up to MaxNow.
TickMs == 2500
MaxNow == 10000
\* The host's task lists in a bulk import of full size, and the control
\* messages delivered around one.
MaxArchived == 70
MaxActive == 50
MaxImportMsgs == 1
\* Direct calls of the encoder: the length of a string, the fields of a point,
\* the points of a payload.
MaxStrLen == 3
MaxFields == 2
MaxPoints == 2
\* Direct calls of enrichTaskData with the same arguments.
MaxCalls == 2
\* Response bodies are at most MaxExcess characters long, or within MaxExcess
\* characters of the length at which the error text is cut.
MaxExcess == 2
\* Loads of the plugin script in one window.
MaxInstances == 3
\* Further loads and control messages, together, in the instance specification.
MaxInstanceEvents == 3
\* Imports and hooks, together, in the cache specification.
MaxCacheEvents == 3

\* --------------------------------------------------- program constants

DEBOUNCE_MS == 5000
\* A batch loop that steps by one task too many.
BATCH_SIZE_OneMore == 50 + 1
BATCH_SIZE == 50

\* --------------------------------------------------------- input data

DefaultConfig == Config(Str(<<>>), Str(<<>>), Str(DEFAULT_MEASUREMENT))
CfgComplete == Config(Str(<<"u">>), Str(<<"k">>), Str(<<"m">>))
CfgSaved == Config(Str(<<"v", "?", "o">>), Str(<<"j">>), Undefined)
CfgNoUrl == Config(Str(<<>>), Str(<<"k">>), Undefined)
CfgNoToken == Config(Str(<<"u">>), Str(<<>>), Undefined)
MsgConfigs == {NoConfig, CfgComplete, CfgNoUrl, CfgNoToken}

\* What the host's storage may hold when the plugin starts.
NoData == [kind |-> "none", cfg |-> NoConfig]
Json(cfg) == [kind |-> "json", cfg |-> cfg]
Garbage == [kind |-> "garbage", cfg |-> NoConfig]
PersistedInit == {NoData, Json(CfgSaved), Garbage}

TaskFull ==
  Task(Str(<<"t", "1">>), Str(<<"W", " ", "s">>), Str(<<"p", "1">>), << <<"g", "1">> >>,
       Bool(TRUE), Num(4), Num(2), Num(7), Undefined)
TaskBare == Task(Undefined, Undefined, Undefined, <<>>, Undefined, Undefined, Undefined,
                 Undefined, Undefined)
HookTasks == {TaskFull, TaskBare}

\* The i-th task of the host's lists.
HostTask(i) ==
  Task(Str(<<"h">> \o NatToStr(i)), Undefined, Undefined, <<>>, Undefined, Undefined,
       Undefined, Undefined, Undefined)

\* What getAllProjects and getAllTags may resolve to.
HostSnapshot ==
  [projects |-> << [id |-> <<"p", "1">>, title |-> <<"A", "l">>] >>,
   tags |-> << [id |-> <<"g", "1">>, title |-> <<"D", " ", "w">>] >>]

\* What the two calls of the refreshCache of process p resolve to: the host's
\* projects and tags are renamed from one refresh to the next.
HostSnapshotAt(p) ==
  [projects |-> << [id |-> <<"p", "1">>, title |-> <<"A">> \o NatToStr(p)] >>,
   tags |-> << [id |-> <<"g", "1">>, title |-> <<"D">> \o NatToStr(p)] >>]

\* ------------------------------------------------------------- state

VARIABLES
  globalConfig,   \* let globalConfig
  updateTimeout,  \* let updateTimeout: 0 for null, else the timer's id
  projectsMap,    \* let projectsMap
  tagsMap,        \* let tagsMap
  timers,         \* the pending timers of setTimeout
  now,            \* Date.now()
  persisted,      \* the host's storage (persistDataSynced / loadSyncedData)
  hostCounts,     \* the lengths of the host's archived and active task lists
  procs,          \* every async invocation, suspended or finished, in start order
  requests,       \* every fetch issued, in issue order, with its outcome
  snacks,         \* every PluginAPI.showSnack call, in call order
  updates,        \* every taskUpdate event: when it arrived and its task
  nHooks,         \* hook events delivered
  nMsgs,          \* control messages delivered
  probe,          \* the last direct call of an encoder or delivery function
  currentGrafanaInstanceId,  \* window.currentGrafanaInstanceId
  instances       \* every loaded instance of the script, in load order, each with
                  \* its message listener, when the script is loaded again

\* The window's instance id and the instances loaded.
instVars == <<currentGrafanaInstanceId, instances>>

vars == <<globalConfig, updateTimeout, projectsMap, tagsMap, timers, now, persisted,
          hostCounts, procs, requests, snacks, updates, nHooks, nMsgs, probe, instVars>>

\* One invocation of a handler, as it starts: its kind (init, save, test,
\* import, sync, or hook for a callback that calls nothing async), the await it is suspended at (or "done"), the hook or message that
\* started it, msg.config, the task and the taskUpdate event it is for,
\* globalConfig and Date.now() at its start, allTasks and the loop index of an
\* import, how its refreshCache and its last sendToGrafana call ended, and
\* whether a failure left it uncaught.
Proc(kind, pc, src, arg, task, ev) ==
  [kind |-> kind, pc |-> pc, src |-> src, arg |-> arg, task |-> task, ev |-> ev,
   cfg |-> globalConfig, at |-> now, all |-> <<>>, i |-> 0, result |-> "",
   refreshed |-> "", uncaught |-> FALSE]

Request(p, r) ==
  [proc |-> p, url |-> r.url, token |-> r.token, body |-> r.body, state |-> "inflight"]

Snack(p, type) == [proc |-> p, type |-> type]

InitDone == procs[1].pc = "done"

\* A direct call: the function, its arguments and what it gave (for a
\* sendToGrafana resumed with a response, the response).  For
\* enrichTaskData, called again and again with the same arguments: the task,
\* globalConfig and the tables of the calls, when each call was made, and (in
\* points) what each gave.
Probe(fn, str, points, cfg, out, send) ==
  [fn |-> fn, str |-> str, points |-> points, cfg |-> cfg, out |-> out, send |-> send,
   response |-> NoResponse, task |-> TaskBare, globalCfg |-> NoConfig, pMap |-> <<>>, tMap |-> <<>>, at |-> <<>>]
NoProbe ==
  Probe("", <<>>, <<>>, NoConfig, <<>>,
        [kind |-> "return", url |-> <<>>, token |-> <<>>, body |-> <<>>])

\* --------------------------------------------------------- real-time sync

Min(a, b) == IF a < b THEN a ELSE b

\* A sendToGrafana that swallows the failure of its request.
SendFinishSwallowed(response) == "returned"

\* How sendToGrafana ends once the response is in: it returns on a success
\* status and throws on any other status and on a network failure.
SendFinish(response) == IF response = "ok" THEN "returned" ELSE "threw"

\* A syncTask without its try/catch: what the send throws leaves it.
syncTaskEndUncaught(outcome) ==
  [result |-> outcome, uncaught |-> outcome = "threw", snack |-> "none"]

\* syncTask's try/catch around enrich and send: whatever the send did, the
\* failure is logged and nothing leaves syncTask, and no snack is shown.
syncTaskEnd(outcome) == [result |-> outcome, uncaught |-> FALSE, snack |-> "none"]

\* The fields of a process that has ended.
Ended(proc, end) == [proc EXCEPT !.pc = "done", !.result = end.result, !.uncaught = end.uncaught]

\* The snacks after a process ended with `end`.
Shown(p, end) == IF end.snack = "none" THEN snacks ELSE Append(snacks, Snack(p, end.snack))

\* A syncTask whose write overtakes the writes issued before it.
syncTaskOvertaking(task, src, ev) ==
  LET p == Len(procs) + 1
      enriched == enrichTaskData(task, globalConfig, globalConfig, projectsMap, tagsMap, now)
      r == SendStart(<<enriched>>, globalConfig, globalConfig, now)
      fresh == Proc("sync", "fetch", src, NoConfig, task, ev)
  IN IF r.kind = "fetch"
     THEN /\ procs' = Append(procs, fresh)
          /\ requests' = <<Request(p, r)>> \o requests
          /\ snacks' = snacks
     ELSE /\ procs' = Append(procs, Ended(fresh, syncTaskEnd("threw")))
          /\ requests' = requests
          /\ snacks' = snacks

\* syncTask(task): enrich, then send with globalConfig passed as the override.
syncTask(task, src, ev) ==
  LET p == Len(procs) + 1
      enriched == enrichTaskData(task, globalConfig, globalConfig, projectsMap, tagsMap, now)
      r == SendStart(<<enriched>>, globalConfig, globalConfig, now)
      fresh == Proc("sync", "fetch", src, NoConfig, task, ev)
  IN IF r.kind = "fetch"
     THEN /\ procs' = Append(procs, fresh)
          /\ requests' = Append(requests, Request(p, r))
          /\ snacks' = snacks
     ELSE LET end == syncTaskEnd(IF r.kind = "throw" THEN "threw" ELSE "returned")
          IN /\ procs' = Append(procs, Ended(fresh, end))
             /\ requests' = requests
             /\ snacks' = Shown(p, end)

\* ------------------------------------------------------------ bulk import

NoSend == [kind |-> "return", url |-> <<>>, token |-> <<>>, body |-> <<>>]

RECURSIVE ImportLoop(_, _, _, _, _, _)
\* The batch loop of importAllHistory from index i up to its next suspension:
\* it ends in success, in an error thrown by a send, or at a fetch.
ImportLoop(all, i, cfg, pMap, tMap, t) ==
  IF i >= Len(all) THEN [kind |-> "success", i |-> i, send |-> NoSend]
  ELSE LET batch == SubSeq(all, i + 1, Min(i + BATCH_SIZE, Len(all)))
           enrichedBatch == [j \in 1..Len(batch) |->
                               enrichTaskData(batch[j], cfg, cfg, pMap, tMap, t)]
           r == SendStart(enrichedBatch, cfg, cfg, t)
       IN IF r.kind = "throw" THEN [kind |-> "error", i |-> i, send |-> r]
          ELSE IF r.kind = "fetch" THEN [kind |-> "fetch", i |-> i, send |-> r]
          ELSE ImportLoop(all, i + BATCH_SIZE, cfg, pMap, tMap, t)

\* importAllHistory's try/catch: one SUCCESS snack after the loop, one ERROR
\* snack for whatever was thrown.
importEnd(outcome) ==
  [result |-> outcome, uncaught |-> FALSE,
   snack |-> IF outcome = "threw" THEN "ERROR" ELSE "SUCCESS"]

\* An import loop that does not await a batch before it sends the next one.
ImportRunUnawaited(p, all, i, reqs) ==
  LET l == ImportLoop(all, i, globalConfig, projectsMap, tagsMap, now)
      next == ImportLoop(all, l.i + BATCH_SIZE, globalConfig, projectsMap, tagsMap, now)
      proc == [procs[p] EXCEPT !.all = all, !.i = l.i]
      first == Append(reqs, Request(p, l.send))
  IN IF l.kind = "fetch"
     THEN /\ procs' = [procs EXCEPT ![p] = [proc EXCEPT !.pc = "fetch"]]
          /\ requests' = IF next.kind = "fetch" THEN Append(first, Request(p, next.send))
                         ELSE first
          /\ snacks' = snacks
     ELSE LET end == importEnd(IF l.kind = "error" THEN "threw" ELSE "returned")
          IN /\ procs' = [procs EXCEPT ![p] = Ended(proc, end)]
             /\ requests' = reqs
             /\ snacks' = Shown(p, end)

\* importAllHistory from index i on, for process p; reqs is the request log
\* so far.
ImportRun(p, all, i, reqs) ==
  LET l == ImportLoop(all, i, globalConfig, projectsMap, tagsMap, now)
      proc == [procs[p] EXCEPT !.all = all, !.i = l.i]
  IN IF l.kind = "fetch"
     THEN /\ procs' = [procs EXCEPT ![p] = [proc EXCEPT !.pc = "fetch"]]
          /\ requests' = Append(reqs, Request(p, l.send))
          /\ snacks' = snacks
     ELSE LET end == importEnd(IF l.kind = "error" THEN "threw" ELSE "returned")
          IN /\ procs' = [procs EXCEPT ![p] = Ended(proc, end)]
             /\ requests' = reqs
             /\ snacks' = Shown(p, end)

\* ------------------------------------------------------ control messages

T_PREFIX == <<"P", "L", "U", "G", "I", "N", "_">>
T_SAVE == <<"P", "L", "U", "G", "I", "N", "_", "S", "A", "V", "E", "_", "C", "O", "N", "F", "I", "G">>
T_TEST == <<"P", "L", "U", "G", "I", "N", "_", "T", "E", "S", "T", "_", "C", "O", "N", "N", "E", "C", "T", "I", "O", "N">>
T_IMPORT == <<"P", "L", "U", "G", "I", "N", "_", "I", "M", "P", "O", "R", "T", "_", "H", "I", "S", "T", "O", "R", "Y">>

\* String.prototype.startsWith
StartsWith(str, prefix) == Len(str) >= Len(prefix) /\ SubSeq(str, 1, Len(prefix)) = prefix

IsSpace(c) == c \in {" ", "\t", "\n"}

\* String.prototype.trim
Trim(str) ==
  IF \A i \in 1..Len(str) : IsSpace(str[i]) THEN <<>>
  ELSE LET first == CHOOSE i \in 1..Len(str) :
                      ~IsSpace(str[i]) /\ \A j \in 1..(i - 1) : IsSpace(str[j])
           last == CHOOSE i \in 1..Len(str) :
                     ~IsSpace(str[i]) /\ \A j \in (i + 1)..Len(str) : IsSpace(str[j])
       IN SubSeq(str, first, last)

\* event.data of a message event: data is FALSE when event.data is missing.
Msg(type, config) == [data |-> TRUE, type |-> type, config |-> config]
NoMsg == [data |-> FALSE, type |-> Undefined, config |-> NoConfig]

\* The messages the host's UI (or anything else posting to the window) sends.
Msgs ==
  {Msg(Str(ty), c) : ty \in {T_SAVE, T_TEST, T_IMPORT}, c \in MsgConfigs}
    \cup {Msg(Str(T_SAVE \o <<" ">>), CfgComplete), Msg(Str(<<" ">> \o T_SAVE), CfgComplete),
          Msg(Str(T_PREFIX \o <<"X">>), CfgComplete), Msg(Str(<<"S", "A", "V", "E">>), CfgComplete),
          Msg(Num(1), CfgComplete), Msg(Undefined, CfgComplete), NoMsg}

\* Guards that do not look at the prefix of the type.
MsgAcceptedAnyPrefix(msg) ==
  /\ msg.data
  /\ Truthy(msg.type)
  /\ msg.type.t = "string"

\* The guards at the head of handleGlobalMessage (the instance check aside).
MsgAccepted(msg) ==
  /\ msg.data
  /\ Truthy(msg.type)
  /\ msg.type.t = "string"
  /\ StartsWith(msg.type.s, T_PREFIX)

\* The save block: replace globalConfig and await persistDataSynced.
SaveBlock(msg) ==
  LET fresh == Proc("save", "persist", "msg", msg.config, TaskBare, 0)
  IN /\ globalConfig' = IF msg.config.obj THEN msg.config ELSE globalConfig
     /\ procs' = Append(procs, IF msg.config.obj THEN fresh ELSE [fresh EXCEPT !.pc = "done"])
     /\ UNCHANGED <<requests, snacks>>

\* The end of the save block: a SUCCESS snack when persisting worked, only a
\* logged error when it did not.
saveEnd(outcome) ==
  [result |-> outcome, uncaught |-> FALSE,
   snack |-> IF outcome = "returned" THEN "SUCCESS" ELSE "none"]

\* A test block that always tests the saved configuration.
CfgToTestSaved(msg, globalCfg) == globalCfg

\* const cfgToTest = (msg.config && msg.config.url) ? msg.config : globalConfig
CfgToTest(msg, globalCfg) ==
  IF msg.config.obj /\ Truthy(msg.config.url) THEN msg.config ELSE globalCfg

\* The end of testConnection: one SUCCESS or one ERROR snack.
testConnectionEnd(outcome) ==
  [result |-> outcome, uncaught |-> FALSE,
   snack |-> IF outcome = "returned" THEN "SUCCESS" ELSE "ERROR"]

\* A testConnection that sends its heartbeat with the saved configuration.
heartbeatSendSaved(cfgToTest, globalCfg, t) ==
  SendStart(<<Heartbeat(globalCfg, t)>>, globalCfg, globalCfg, t)

\* await sendToGrafana(heartbeat, cfgToTest), up to the fetch.
heartbeatSend(cfgToTest, globalCfg, t) ==
  SendStart(<<Heartbeat(cfgToTest, t)>>, cfgToTest, globalCfg, t)

\* The test block and testConnection(cfgToTest) up to the fetch.
TestBlock(msg) ==
  LET p == Len(procs) + 1
      cfgToTest == CfgToTest(msg, globalConfig)
      invalid == ~cfgToTest.obj \/ ~Truthy(cfgToTest.url) \/ ~Truthy(cfgToTest.token)
      r == heartbeatSend(cfgToTest, globalConfig, now)
      fresh == Proc("test", "fetch", "msg", msg.config, TaskBare, 0)
  IN /\ globalConfig' = globalConfig
     /\ IF invalid
        THEN /\ procs' = Append(procs, [fresh EXCEPT !.pc = "done", !.result = "invalid"])
             /\ requests' = requests
             /\ snacks' = Append(snacks, Snack(p, "ERROR"))
        ELSE IF r.kind = "fetch"
        THEN /\ procs' = Append(procs, fresh)
             /\ requests' = Append(requests, Request(p, r))
             /\ snacks' = snacks
        ELSE LET end == testConnectionEnd(IF r.kind = "throw" THEN "threw" ELSE "returned")
             IN /\ procs' = Append(procs, Ended(fresh, end))
                /\ requests' = requests
                /\ snacks' = Shown(p, end)

\* The import block: importAllHistory up to the await of refreshCache.
ImportBlock ==
  LET p == Len(procs) + 1
  IN /\ procs' = Append(procs, Proc("import", "refresh", "msg", NoConfig, TaskBare, 0))
     /\ snacks' = Append(snacks, Snack(p, "INFO"))
     /\ UNCHANGED <<globalConfig, requests>>

\* handleGlobalMessage(event)
HandleGlobalMessage(msg) ==
  /\ nMsgs < MaxMsgs
  /\ nMsgs' = nMsgs + 1
  /\ LET cleanType == Trim(JsString(msg.type))
     IN IF ~MsgAccepted(msg) THEN UNCHANGED <<globalConfig, procs, requests, snacks>>
        ELSE IF cleanType = T_SAVE THEN SaveBlock(msg)
        ELSE IF cleanType = T_TEST THEN TestBlock(msg)
        ELSE IF cleanType = T_IMPORT THEN ImportBlock
        ELSE UNCHANGED <<globalConfig, procs, requests, snacks>>
  /\ UNCHANGED <<instVars, probe, updateTimeout, projectsMap, tagsMap, timers, now, persisted, hostCounts,
                 updates, nHooks>>

\* persistDataSynced settles for a suspended save block.
PersistDone(p, ok) ==
  /\ procs[p].kind = "save" /\ procs[p].pc = "persist"
  /\ LET end == saveEnd(IF ok THEN "returned" ELSE "threw")
     IN /\ procs' = [procs EXCEPT ![p] = Ended(procs[p], end)]
        /\ snacks' = Shown(p, end)
  /\ persisted' = IF ok THEN Json(procs[p].arg) ELSE persisted
  /\ UNCHANGED <<instVars, probe, globalConfig, updateTimeout, projectsMap, tagsMap, timers, now, hostCounts,
                 requests, updates, nHooks, nMsgs>>

\* ------------------------------------------------------------------ init

\* init() resumes from loadSyncedData: the saved configuration, when it
\* parses, replaces globalConfig; then refreshCache is awaited.
InitLoaded ==
  /\ procs[1].pc = "load"
  /\ globalConfig' = IF persisted.kind = "json" THEN persisted.cfg ELSE globalConfig
  /\ procs' = [procs EXCEPT ![1].pc = "refresh"]
  /\ UNCHANGED <<instVars, probe, updateTimeout, projectsMap, tagsMap, timers, now, persisted, hostCounts,
                 requests, snacks, updates, nHooks, nMsgs>>

\* A refreshCache that awaits the two lists one after the other and assigns
\* each table as its list arrives: the projects are replaced although the tags
\* failed.
refreshCacheOneByOne(outcome, snapshot) ==
  IF outcome = "ok"
  THEN [projectsMap |-> BuildMap(snapshot.projects), tagsMap |-> BuildMap(snapshot.tags)]
  ELSE IF outcome = "tagsFailed"
  THEN [projectsMap |-> BuildMap(snapshot.projects), tagsMap |-> tagsMap]
  ELSE [projectsMap |-> projectsMap, tagsMap |-> tagsMap]

\* refreshCache() once Promise.all settled: both tables are replaced when both
\* lists arrived, none when either fetch failed.
refreshCache(outcome, snapshot) ==
  IF outcome = "ok"
  THEN [projectsMap |-> BuildMap(snapshot.projects), tagsMap |-> BuildMap(snapshot.tags)]
  ELSE [projectsMap |-> projectsMap, tagsMap |-> tagsMap]

\* A refreshCache that awaits the projects, replaces their table, and only
\* then awaits the tags and replaces theirs.
RefreshDoneTorn(p, outcome, snapshot) ==
  /\ procs[p].pc = "refresh"
  /\ IF outcome = "ok" /\ procs[p].refreshed = ""
     THEN /\ projectsMap' = BuildMap(snapshot.projects)
          /\ tagsMap' = tagsMap
          /\ procs' = [procs EXCEPT ![p].refreshed = "projects"]
     ELSE /\ projectsMap' = projectsMap
          /\ tagsMap' = IF outcome = "ok" THEN BuildMap(snapshot.tags) ELSE tagsMap
          /\ procs' = [procs EXCEPT ![p].pc = IF procs[p].kind = "init" THEN "done" ELSE "tasks",
                                    ![p].refreshed = IF outcome = "ok" THEN "ok" ELSE "failed"]
  /\ UNCHANGED <<instVars, probe, globalConfig, updateTimeout, timers, now, persisted, hostCounts, requests,
                 snacks, updates, nHooks, nMsgs>>

\* The awaited refreshCache of process p (init or a bulk import) settles, and
\* the caller goes on: init registers its hooks, the import fetches the tasks.
RefreshDone(p, outcome, snapshot) ==
  /\ procs[p].pc = "refresh"
  /\ LET maps == refreshCache(outcome, snapshot)
     IN /\ projectsMap' = maps.projectsMap
        /\ tagsMap' = maps.tagsMap
  /\ procs' = [procs EXCEPT ![p].pc = IF procs[p].kind = "init" THEN "done" ELSE "tasks",
                            ![p].refreshed = IF outcome = "ok" THEN "ok" ELSE "failed"]
  /\ UNCHANGED <<instVars, probe, globalConfig, updateTimeout, timers, now, persisted, hostCounts, requests,
                 snacks, updates, nHooks, nMsgs>>

\* getArchivedTasks and getTasks settle for the import p: on failure the catch
\* shows the ERROR snack, else the batch loop starts.
TasksFetched(p, ok) ==
  /\ procs[p].kind = "import" /\ procs[p].pc = "tasks"
  /\ IF ok
     THEN LET archived == [i \in 1..hostCounts.archived |-> HostTask(i)]
              active == [i \in 1..hostCounts.active |-> HostTask(hostCounts.archived + i)]
          IN ImportRun(p, archived \o active, 0, requests)
     ELSE LET end == importEnd("threw")
          IN /\ procs' = [procs EXCEPT ![p] = Ended(procs[p], end)]
             /\ snacks' = Shown(p, end)
             /\ requests' = requests
  /\ UNCHANGED <<instVars, probe, globalConfig, updateTimeout, projectsMap, tagsMap, timers, now, persisted,
                 hostCounts, updates, nHooks, nMsgs>>

\* A sendToGrafana that issues its request once more when it failed.
fetchSettledRetried(r, response) ==
  LET reqs == [requests EXCEPT ![r].state = response]
  IN IF response = "ok" THEN reqs ELSE Append(reqs, [requests[r] EXCEPT !.state = "inflight"])

\* The request log once the fetch of request r has settled: sendToGrafana
\* issues nothing more, whatever the response.
fetchSettled(r, response) == [requests EXCEPT ![r].state = response]

\* The fetch of request r settles (success status, other status, network
\* failure) and the sendToGrafana awaiting it, then its caller, go on.
FetchDone(r, response) ==
  /\ requests[r].state = "inflight"
  /\ LET p == requests[r].proc
         reqs == fetchSettled(r, response)
         outcome == SendFinish(response)
     IN IF procs[p].kind = "import" /\ outcome = "returned"
        THEN ImportRun(p, procs[p].all, procs[p].i + BATCH_SIZE, reqs)
        ELSE LET end == IF procs[p].kind = "import" THEN importEnd(outcome)
                        ELSE IF procs[p].kind = "test" THEN testConnectionEnd(outcome)
                        ELSE syncTaskEnd(outcome)
             IN /\ procs' = [procs EXCEPT ![p] = Ended(procs[p], end)]
                /\ snacks' = Shown(p, end)
                /\ requests' = reqs
  /\ UNCHANGED <<instVars, probe, globalConfig, updateTimeout, projectsMap, tagsMap, timers, now, persisted,
                 hostCounts, updates, nHooks, nMsgs>>

\* ----------------------------------------------------------------- hooks

\* A timer that is due runs before the clock moves on and before the next
\* taskUpdate event is handled.
NoTimerDue == \A t \in timers : now < t.due

HookGuard == InitDone /\ nHooks < MaxHooks

\* The taskComplete hook.
TaskComplete(task) ==
  /\ HookGuard
  /\ nHooks' = nHooks + 1
  /\ syncTask(task, "taskComplete", 0)
  /\ UNCHANGED <<instVars, probe, globalConfig, updateTimeout, projectsMap, tagsMap, timers, now, persisted,
                 hostCounts, updates, nMsgs>>

\* The currentTaskChange hook: nothing when there is no current task.
CurrentTaskChange(hasCurrent, current) ==
  /\ HookGuard
  /\ nHooks' = nHooks + 1
  /\ IF hasCurrent THEN syncTask(current, "currentTaskChange", 0)
     ELSE UNCHANGED <<procs, requests, snacks>>
  /\ UNCHANGED <<instVars, probe, globalConfig, updateTimeout, projectsMap, tagsMap, timers, now, persisted,
                 hostCounts, updates, nMsgs>>

\* A taskUpdate hook that forgets to cancel the pending timer.
clearTimeoutForgotten(pending, id) == pending

\* clearTimeout(id): the timer of that id, if still pending, is dropped.
clearTimeout(pending, id) == {t \in pending : t.id # id}

\* The taskUpdate hook: clearTimeout(updateTimeout), then a new timer.
TaskUpdate(task) ==
  /\ HookGuard
  /\ NoTimerDue
  /\ nHooks' = nHooks + 1
  /\ LET ev == Len(updates) + 1
     IN /\ timers' = clearTimeout(timers, updateTimeout)
                       \cup {[id |-> ev, due |-> now + DEBOUNCE_MS, task |-> task, ev |-> ev]}
        /\ updateTimeout' = ev
        /\ updates' = Append(updates, [at |-> now, task |-> task])
  /\ UNCHANGED <<instVars, probe, globalConfig, projectsMap, tagsMap, now, persisted, hostCounts, procs,
                 requests, snacks, nMsgs>>

\* The timer's callback: syncTask(payload.task).
TimerFire(t) ==
  /\ t \in timers
  /\ now >= t.due
  /\ timers' = timers \ {t}
  /\ syncTask(t.task, "taskUpdate", t.ev)
  /\ UNCHANGED <<instVars, probe, globalConfig, updateTimeout, projectsMap, tagsMap, now, persisted,
                 hostCounts, updates, nHooks, nMsgs>>

\* A callback of a hook that calls nothing async: it has run to its end.
HookRan(src) == [Proc("hook", "done", src, NoConfig, TaskBare, 0) EXCEPT !.result = "returned"]

\* A taskDelete hook that sends the deleted task as taskComplete does.
TaskDeleteSynced ==
  /\ HookGuard
  /\ nHooks' = nHooks + 1
  /\ syncTask(TaskFull, "taskDelete", 0)
  /\ UNCHANGED <<instVars, probe, globalConfig, updateTimeout, projectsMap, tagsMap, timers, now, persisted,
                 hostCounts, updates, nMsgs>>

\* The taskDelete hook only logs.
TaskDelete ==
  /\ HookGuard
  /\ nHooks' = nHooks + 1
  /\ procs' = Append(procs, HookRan("taskDelete"))
  /\ UNCHANGED <<instVars, probe, globalConfig, updateTimeout, projectsMap, tagsMap, timers, now, persisted,
                 hostCounts, requests, snacks, updates, nMsgs>>

\* The finishDay hook shows an INFO snack.
FinishDay ==
  /\ HookGuard
  /\ nHooks' = nHooks + 1
  /\ procs' = Append(procs, HookRan("finishDay"))
  /\ snacks' = Append(snacks, Snack(Len(procs) + 1, "INFO"))
  /\ UNCHANGED <<instVars, probe, globalConfig, updateTimeout, projectsMap, tagsMap, timers, now, persisted,
                 hostCounts, requests, updates, nMsgs>>

\* Time passes; the clock counts from the registration of the hooks.
Tick ==
  /\ InitDone
  /\ NoTimerDue
  /\ now + TickMs <= MaxNow
  /\ now' = now + TickMs
  /\ UNCHANGED <<instVars, probe, globalConfig, updateTimeout, projectsMap, tagsMap, timers, persisted,
                 hostCounts, procs, requests, snacks, updates, nHooks, nMsgs>>

\* ------------------------------------------------------------ instances

\* What Math.random().toString(36).substr(2, 9) may give.
RandomStrings == {<<"a">>, <<"b">>}

\* `grafana_bridge_${Date.now()}_${Math.random().toString(36).substr(2, 9)}`:
\* two ids are equal when the time and the random part are.
InstanceId(t, r) == [at |-> t, rnd |-> r]

\* What an instance awaits: the load of init, the persist of a save, the
\* fetch of a test, the host calls of an import (of an empty task list).
Pending(kind, cfg) == [kind |-> kind, cfg |-> cfg]

\* One run of the script's closure, as it is when the script has run to its
\* end: its id, its globalConfig, init() suspended at loadSyncedData, and
\* what it did since: the messages it processed, the requests it issued and
\* the snacks it showed.
Instance(id) ==
  [INSTANCE_ID |-> id, globalConfig |-> DefaultConfig,
   pending |-> << Pending("load", NoConfig) >>,
   handled |-> <<>>, requests |-> <<>>, snacks |-> <<>>]

\* A handler that never takes itself for a zombie.
IsZombieNever(window, id) == FALSE

\* window.currentGrafanaInstanceId !== INSTANCE_ID
IsZombie(window, id) == window # id

\* handleGlobalMessage(event) of the instance inst, up to its first await:
\* the m-th message, received when Date.now() is t.
handleGlobalMessageOf(inst, window, msg, m, t) ==
  IF IsZombie(window, inst.INSTANCE_ID) \/ ~MsgAccepted(msg) THEN inst
  ELSE LET cleanType == Trim(JsString(msg.type))
           seen == [inst EXCEPT !.handled = Append(@, m)]
           cfgToTest == CfgToTest(msg, inst.globalConfig)
           invalid == ~cfgToTest.obj \/ ~Truthy(cfgToTest.url) \/ ~Truthy(cfgToTest.token)
           r == heartbeatSend(cfgToTest, inst.globalConfig, t)
       IN IF cleanType = T_SAVE
          THEN IF msg.config.obj
               THEN [seen EXCEPT !.globalConfig = msg.config,
                                 !.pending = Append(@, Pending("save", msg.config))]
               ELSE seen
          ELSE IF cleanType = T_TEST
          THEN IF invalid THEN [seen EXCEPT !.snacks = Append(@, "ERROR")]
               ELSE IF r.kind = "fetch"
               THEN [seen EXCEPT !.requests = Append(@, r),
                                 !.pending = Append(@, Pending("test", cfgToTest))]
               ELSE [seen EXCEPT !.snacks = Append(@, "ERROR")]
          ELSE IF cleanType = T_IMPORT
          THEN [seen EXCEPT !.snacks = Append(@, "INFO"),
                            !.pending = Append(@, Pending("import", NoConfig))]
          ELSE inst

\* The script is loaded once more, when Date.now() is t and Math.random()
\* gives r: the window's id becomes the new instance's, a further listener is
\* registered, and init() starts.  The random part differs from that of every
\* instance loaded in the same millisecond.
Spawn(t, r) ==
  /\ Len(instances) < MaxInstances
  /\ t >= now /\ t <= MaxNow
  /\ \A i \in 1..Len(instances) : instances[i].INSTANCE_ID # InstanceId(t, r)
  /\ now' = t
  /\ currentGrafanaInstanceId' = InstanceId(t, r)
  /\ instances' = Append(instances, Instance(InstanceId(t, r)))
  /\ UNCHANGED <<probe, globalConfig, updateTimeout, projectsMap, tagsMap, timers, persisted,
                 hostCounts, procs, requests, snacks, updates, nHooks, nMsgs>>

\* A message event is dispatched: every registered listener runs, in the
\* order of registration, each to its first await.
Dispatch(msg) ==
  /\ nMsgs < MaxMsgs
  /\ nMsgs' = nMsgs + 1
  /\ instances' = [i \in 1..Len(instances) |->
                     handleGlobalMessageOf(instances[i], currentGrafanaInstanceId, msg,
                                           nMsgs + 1, now)]
  /\ UNCHANGED <<probe, globalConfig, updateTimeout, projectsMap, tagsMap, timers, now, persisted,
                 hostCounts, procs, requests, snacks, updates, nHooks, currentGrafanaInstanceId>>

\* The k-th thing the instance i awaits settles, and the instance goes on to
\* its end: init takes the stored configuration, a save, a test and an import
\* show their snack.
InstanceSettle(i, k, ok) ==
  /\ i \in 1..Len(instances)
  /\ k \in 1..Len(instances[i].pending)
  /\ LET inst == instances[i]
         op == inst.pending[k]
         outcome == IF ok THEN "returned" ELSE "threw"
         rest == [inst EXCEPT !.pending = SubSeq(@, 1, k - 1) \o SubSeq(@, k + 1, Len(@))]
         end == IF op.kind = "save" THEN saveEnd(outcome)
                ELSE IF op.kind = "test" THEN testConnectionEnd(outcome)
                ELSE importEnd(outcome)
     IN /\ instances' =
             [instances EXCEPT ![i] =
                IF op.kind = "load"
                THEN [rest EXCEPT !.globalConfig =
                        IF ok /\ persisted.kind = "json" THEN persisted.cfg ELSE @]
                ELSE IF end.snack = "none" THEN rest
                ELSE [rest EXCEPT !.snacks = Append(@, end.snack)]]
        /\ persisted' = IF op.kind = "save" /\ ok THEN Json(op.cfg) ELSE persisted
  /\ UNCHANGED <<probe, globalConfig, updateTimeout, projectsMap, tagsMap, timers, now,
                 hostCounts, procs, requests, snacks, updates, nHooks, nMsgs,
                 currentGrafanaInstanceId>>

\* ------------------------------------------------------- specifications

InitCommon ==
  /\ globalConfig = DefaultConfig
  /\ updateTimeout = 0
  /\ projectsMap = <<>>
  /\ tagsMap = <<>>
  /\ timers = {}
  /\ now = 0
  /\ persisted \in PersistedInit
  /\ procs = << Proc("init", "load", "load", NoConfig, TaskBare, 0) >>
  /\ requests = <<>>
  /\ snacks = <<>>
  /\ updates = <<>>
  /\ nHooks = 0
  /\ nMsgs = 0
  /\ probe = NoProbe
  /\ currentGrafanaInstanceId = InstanceId(0, <<"a">>)
  /\ instances = << Instance(InstanceId(0, <<"a">>)) >>

Responses == {"ok", "http", "net"}
RefreshOutcomes == {"ok", "projectsFailed", "tagsFailed"}

\* The steps of init() and of whatever awaits a host call or a fetch.
Settle ==
  \/ InitLoaded
  \/ \E p \in 1..Len(procs), o \in RefreshOutcomes : RefreshDone(p, o, HostSnapshot)
  \/ \E r \in 1..Len(requests), resp \in Responses : FetchDone(r, resp)

\* Real-time sync: the host delivers hook events while time passes.
InitSync ==
  /\ InitCommon
  /\ persisted \in {NoData, Json(CfgSaved)}
  /\ hostCounts = [archived |-> 0, active |-> 0]

NextSync ==
  \/ Settle
  \/ \E task \in HookTasks : TaskComplete(task)
  \/ \E has \in BOOLEAN, task \in HookTasks : CurrentTaskChange(has, task)
  \/ \E task \in HookTasks : TaskUpdate(task)
  \/ \E t \in timers : TimerFire(t)
  \/ TaskDelete
  \/ FinishDay
  \/ Tick

SpecSync == InitSync /\ [][NextSync]_vars

\* The save-config and test-connection messages of the host's UI, and the
\* messages the handler ignores.
InitMsg ==
  /\ InitCommon
  /\ persisted \in {NoData, Json(CfgSaved)}
  /\ hostCounts = [archived |-> 0, active |-> 0]

SaveTestMsgs == {msg \in Msgs : msg.type # Str(T_IMPORT)}

NextMsg ==
  \/ Settle
  \/ \E msg \in SaveTestMsgs : HandleGlobalMessage(msg)
  \/ \E p \in 1..Len(procs), ok \in BOOLEAN : PersistDone(p, ok)

SpecMsg == InitMsg /\ [][NextMsg]_vars

\* A bulk import of the host's full lists, with configurations saved
\* meanwhile; the user starts one import at a time.
InitImport ==
  /\ InitCommon
  /\ persisted = Json(CfgSaved)
  /\ hostCounts \in {[archived |-> a, active |-> b] : a \in {0, MaxArchived}, b \in {0, MaxActive}}

ImportMsgs == {Msg(Str(T_IMPORT), NoConfig), Msg(Str(T_SAVE), CfgNoToken)}

NoImportRunning == \A p \in 1..Len(procs) : procs[p].kind = "import" => procs[p].pc = "done"

NextImport ==
  \/ Settle
  \/ \E msg \in ImportMsgs :
       NoImportRunning /\ nMsgs < MaxImportMsgs /\ HandleGlobalMessage(msg)
  \/ \E p \in 1..Len(procs), ok \in BOOLEAN : PersistDone(p, ok)
  \/ \E p \in 1..Len(procs), ok \in BOOLEAN : TasksFetched(p, ok)

SpecImport == InitImport /\ [][NextImport]_vars

\* The cache under concurrent use: imports (of an empty task list) refresh
\* the tables, each from the host's lists as they are then, while hooks
\* enrich and send tasks; the writes succeed.
InitCache ==
  /\ InitCommon
  /\ persisted = Json(CfgSaved)
  /\ hostCounts = [archived |-> 0, active |-> 0]

NextCache ==
  \/ InitLoaded
  \/ \E p \in 1..Len(procs), o \in {"ok", "tagsFailed"} : RefreshDone(p, o, HostSnapshotAt(p))
  \/ \E r \in 1..Len(requests) : FetchDone(r, "ok")
  \/ nMsgs + nHooks < MaxCacheEvents /\ HandleGlobalMessage(Msg(Str(T_IMPORT), NoConfig))
  \/ \E p \in 1..Len(procs) : TasksFetched(p, TRUE)
  \/ nMsgs + nHooks < MaxCacheEvents /\ TaskComplete(TaskFull)

SpecCache == InitCache /\ [][NextCache]_vars

\* The script loaded again and again in one window, while control messages
\* arrive and what the instances await settles.
InitInstances ==
  /\ InitCommon
  /\ persisted = Json(CfgSaved)
  /\ hostCounts = [archived |-> 0, active |-> 0]

ControlMsgs ==
  {Msg(Str(T_SAVE), CfgComplete), Msg(Str(T_TEST), NoConfig), Msg(Str(T_IMPORT), NoConfig)}

\* Loads after the first, and messages, so far.
InstanceEvents == Len(instances) - 1 + nMsgs

NextInstances ==
  \/ \E t \in {now, now + TickMs}, r \in RandomStrings :
       InstanceEvents < MaxInstanceEvents /\ Spawn(t, r)
  \/ \E msg \in ControlMsgs : InstanceEvents < MaxInstanceEvents /\ Dispatch(msg)
  \/ \E i \in 1..Len(instances), k \in 1..MaxMsgs + 1, ok \in BOOLEAN : InstanceSettle(i, k, ok)

SpecInstances == InitInstances /\ [][NextInstances]_vars

\* ------------------------------------- direct calls of the pure functions

RECURSIVE SeqsUpTo(_, _)
\* The sequences over S of length at most n.
SeqsUpTo(S, n) ==
  IF n = 0 THEN {<<>>}
  ELSE LET shorter == SeqsUpTo(S, n - 1)
       IN shorter \cup {Append(q, x) : q \in shorter, x \in S}

\* Strings over an alphabet that holds the two characters escapeStringField
\* rewrites.
ProbeStrings == SeqsUpTo({"a", "\"", "\\"}, MaxStrLen)

ProbeValues == {Null, Undefined, Num(1), Bool(TRUE), Str(<<>>), Str(<<"a">>)}

\* The i-th field key of a probe point.
FieldKey(i) == <<"f">> \o NatToStr(i)

Point(measurement, tags, values, timestamp) ==
  [measurement |-> measurement, tags |-> tags,
   fields |-> [i \in 1..Len(values) |-> [k |-> FieldKey(i), v |-> values[i]]],
   timestamp |-> timestamp]

ProbeTags ==
  { <<>>, << [k |-> <<"a">>, v |-> Str(<<"x">>)], [k |-> <<"b">>, v |-> Str(<<>>)] >> }

\* Points whose measurement, tag keys, tag values and field keys hold spaces,
\* commas and equals signs, with tags that are dropped between tags that stay.
SpecialPoints ==
  {[measurement |-> Str(m),
    tags |-> << [k |-> <<"a", "=">>, v |-> Str(<<"x", " ", "y">>)],
                [k |-> <<"n">>, v |-> Null],
                [k |-> <<"e">>, v |-> Str(<<>>)],
                [k |-> <<"u">>, v |-> Undefined],
                [k |-> <<"z", ",">>, v |-> tv] >>,
    fields |-> << [k |-> <<"f", " ", "1">>, v |-> Str(<<"a", " ", "b">>)],
                  [k |-> <<"g">>, v |-> Undefined],
                  [k |-> <<"h", ",", "=">>, v |-> Bool(FALSE)] >>,
    timestamp |-> ts] :
     m \in {<<"m">>, <<"m", " ", ",", "=">>}, tv \in {Num(3), Str(<<"=">>), Null},
     ts \in {Num(5), NaN}}

ProbePoints ==
  {Point(Str(<<"m">>), tg, vs, ts) :
     tg \in ProbeTags, vs \in SeqsUpTo(ProbeValues, MaxFields), ts \in {Num(5), NaN}}
    \cup SpecialPoints

\* The points of the payloads: without fields, with only null and undefined
\* fields, with one field, with a dropped and a kept field.
PayloadPoints ==
  {Point(Str(<<"m">>), <<>>, vs, Num(5)) :
     vs \in { <<>>, <<Null, Undefined>>, <<Num(1)>>, <<Undefined, Str(<<"a">>)>> }}

\* escapeStringField(str), called on its own.
EscapeCall(str) ==
  /\ probe = NoProbe
  /\ probe' = Probe("escapeStringField", str, <<>>, NoConfig, escapeStringField(Str(str)), NoProbe.send)
  /\ UNCHANGED <<instVars, globalConfig, updateTimeout, projectsMap, tagsMap, timers, now, persisted,
                 hostCounts, procs, requests, snacks, updates, nHooks, nMsgs>>

\* toLineProtocol(item), called on its own.
EncodeCall(item) ==
  /\ probe = NoProbe
  /\ probe' = Probe("toLineProtocol", <<>>, <<item>>, NoConfig, toLineProtocol(item, now), NoProbe.send)
  /\ UNCHANGED <<instVars, globalConfig, updateTimeout, projectsMap, tagsMap, timers, now, persisted,
                 hostCounts, procs, requests, snacks, updates, nHooks, nMsgs>>

\* sendToGrafana(payload, cfgOverride) up to its fetch, called on its own.
SendCall(payload, cfgOverride) ==
  /\ probe = NoProbe
  /\ probe' = Probe("sendToGrafana", <<>>, payload, cfgOverride, <<>>,
                    SendStart(payload, cfgOverride, globalConfig, now))
  /\ UNCHANGED <<instVars, globalConfig, updateTimeout, projectsMap, tagsMap, timers, now, persisted,
                 hostCounts, procs, requests, snacks, updates, nHooks, nMsgs>>

\* A body of n characters, no two neighbours alike.
BodyOf(n) == [i \in 1..n |-> Digits[(i % 10) + 1]]

\* Responses that are not ok: short bodies, bodies around the length at which
\* the text is cut, and a body that cannot be read.
ProbeResponses ==
  {Response(st[1], st[2], TRUE, BodyOf(n)) :
     st \in {<<404, <<"N", "o", "t", " ", "F", "o", "u", "n", "d">>>>, <<500, <<>>>>},
     n \in (0..MaxExcess) \cup ((ERR_TEXT_MAX - MaxExcess)..(ERR_TEXT_MAX + MaxExcess))}
    \cup {Response(503, <<>>, FALSE, <<>>)}

\* sendToGrafana resumed with a response that is not ok, on its own.
ResponseCall(response) ==
  /\ probe = NoProbe
  /\ probe' = [Probe("response", <<>>, <<>>, NoConfig, UpstreamError(response), NoProbe.send)
                 EXCEPT !.response = response]
  /\ UNCHANGED <<instVars, globalConfig, updateTimeout, projectsMap, tagsMap, timers, now, persisted,
                 hostCounts, procs, requests, snacks, updates, nHooks, nMsgs>>

InitEncode ==
  /\ InitCommon
  /\ hostCounts = [archived |-> 0, active |-> 0]

\* Tasks with a date of their own (updated, or only created, or an updated of
\* 0 before a created) and without any.
TaskCreated ==
  Task(Str(<<"t", "2">>), Undefined, Str(<<"p", "1">>), << <<"g", "2">> >>, Undefined, Num(6),
       Undefined, Undefined, Num(3))
TaskUpdatedZero ==
  Task(Str(<<"t", "3">>), Undefined, Undefined, <<>>, Undefined, Undefined, Undefined, Num(0),
       Num(9))
EnrichTasks == {TaskFull, TaskBare, TaskCreated, TaskUpdatedZero}

\* enrichTaskData(task, cfg), called on its own.
EnrichCall(task, cfg) ==
  /\ probe = NoProbe
  /\ probe' = [Probe("enrichTaskData", <<>>,
                     <<enrichTaskData(task, cfg, globalConfig, projectsMap, tagsMap, now)>>,
                     cfg, <<>>, NoProbe.send)
                 EXCEPT !.task = task, !.globalCfg = globalConfig, !.pMap = projectsMap,
                        !.tMap = tagsMap, !.at = <<now>>]
  /\ UNCHANGED <<instVars, globalConfig, updateTimeout, projectsMap, tagsMap, timers, now, persisted,
                 hostCounts, procs, requests, snacks, updates, nHooks, nMsgs>>

\* enrichTaskData called once more on the same task and configuration, while
\* globalConfig and the tables are what they were at the first call.
EnrichAgain ==
  /\ probe.fn = "enrichTaskData"
  /\ Len(probe.points) < MaxCalls
  /\ globalConfig = probe.globalCfg /\ projectsMap = probe.pMap /\ tagsMap = probe.tMap
  /\ probe' = [probe EXCEPT
                 !.points = Append(@, enrichTaskData(probe.task, probe.cfg, globalConfig,
                                                     projectsMap, tagsMap, now)),
                 !.at = Append(@, now)]
  /\ UNCHANGED <<instVars, globalConfig, updateTimeout, projectsMap, tagsMap, timers, now, persisted,
                 hostCounts, procs, requests, snacks, updates, nHooks, nMsgs>>

\* Direct calls of enrichTaskData while init runs and time passes.
NextEnrich ==
  \/ InitLoaded
  \/ \E o \in RefreshOutcomes : RefreshDone(1, o, HostSnapshot)
  \/ Tick
  \/ \E task \in EnrichTasks, cfg \in {NoConfig, CfgComplete, CfgNoUrl} : EnrichCall(task, cfg)
  \/ EnrichAgain

SpecEnrich == InitEncode /\ [][NextEnrich]_vars

NextEncode ==
  \/ InitLoaded
  \/ \E str \in ProbeStrings : EscapeCall(str)
  \/ \E item \in ProbePoints : EncodeCall(item)
  \/ \E payload \in SeqsUpTo(PayloadPoints, MaxPoints),
        cfgOverride \in {NoConfig, CfgComplete, CfgNoToken} : SendCall(payload, cfgOverride)
  \/ \E response \in ProbeResponses : ResponseCall(response)

SpecEncode == InitEncode /\ [][NextEncode]_vars

\* ------------------------------------------------------------- claims

ProcIds == 1..Len(procs)

\* The requests process p issued, in issue order.
RequestsOf(p) == SelectSeq(requests, LAMBDA r : r.proc = p)

\* The snacks of the given types shown for process p.
SnacksOf(p, types) == SelectSeq(snacks, LAMBDA sn : sn.proc = p /\ sn.type \in types)

Complete(cfg) == cfg.obj /\ Truthy(cfg.url) /\ Truthy(cfg.token)

\* The debounced syncTask calls made for taskUpdate event i.
Fired(i) == {p \in ProcIds : procs[p].kind = "sync" /\ procs[p].src = "taskUpdate" /\ procs[p].ev = i}

\* Event i closes its burst: no taskUpdate followed it within 5000 ms.
ClosesBurst(i) == i = Len(updates) \/ updates[i + 1].at - updates[i].at >= 5000

\* C1: of the taskUpdate events of a burst (each less than 5000 ms after the
\* one before), only the last is ever sent; once 5000 ms have passed after it
\* and the timer then due has run, exactly one send was made for the burst,
\* with the task of that last event, and the body of its request, if it made
\* one, is the line of that task.
C1_DebounceOneSend ==
  \A i \in 1..Len(updates) :
    /\ ~ClosesBurst(i) => Fired(i) = {}
    /\ Cardinality(Fired(i)) <= 1
    /\ (ClosesBurst(i) /\ now >= updates[i].at + 5000 /\ NoTimerDue)
         => Cardinality(Fired(i)) = 1
    /\ \A p \in Fired(i) :
         /\ procs[p].task = updates[i].task
         /\ procs[p].at >= updates[i].at + 5000
         /\ \A k \in 1..Len(requests) :
              requests[k].proc = p =>
                requests[k].body =
                  toLineProtocol(enrichTaskData(updates[i].task, procs[p].cfg, procs[p].cfg,
                                                projectsMap, tagsMap, procs[p].at),
                                 procs[p].at)

\* C1 witness: two taskUpdate events less than 5000 ms apart, and the send of
\* the second has been made and has written.
C1_Witness ==
  \E i \in 1..(Len(updates) - 1) :
    /\ updates[i + 1].at - updates[i].at < 5000
    /\ updates[i + 1].task # updates[i].task
    /\ \E p \in Fired(i + 1) : RequestsOf(p) # <<>>

\* C6 (as claimed): a background send made while the stored configuration
\* lacks the URL or the token makes no request and does not throw.
C6_BackgroundSendSilent ==
  \A p \in ProcIds :
    (procs[p].kind = "sync" /\ ~Complete(procs[p].cfg))
      => RequestsOf(p) = <<>> /\ procs[p].result = "returned"

\* C7: whatever the send of a hook's syncTask did (configuration missing,
\* non-success status, network failure), no snack is shown for it and nothing
\* thrown leaves syncTask towards the hook's caller.
C7_BackgroundNeverVisible ==
  \A p \in ProcIds :
    procs[p].kind = "sync" => ~procs[p].uncaught /\ SnacksOf(p, {"SUCCESS", "ERROR", "INFO"}) = <<>>

\* C7 witness: a debounced send ended in a network failure and a hook's send
\* was refused for its configuration, or ended in a non-success status.
C7_Witness ==
  \E p, q \in ProcIds :
    /\ p # q
    /\ procs[p].kind = "sync" /\ procs[p].pc = "done" /\ procs[p].result = "threw"
    /\ procs[q].kind = "sync" /\ procs[q].pc = "done" /\ procs[q].result = "threw"
    /\ procs[p].src = "taskUpdate"
    /\ \E k \in 1..Len(requests) : requests[k].proc = p /\ requests[k].state = "net"
    /\ \/ RequestsOf(q) = <<>>
       \/ \E k \in 1..Len(requests) : requests[k].proc = q /\ requests[k].state = "http"

Interactive == {"save", "test", "import"}

\* C2 (as claimed): every save-config, test-connection and import-history
\* action that has ended has shown exactly one SUCCESS or ERROR snack.
C2_OneNotificationEach ==
  \A p \in ProcIds :
    (procs[p].kind \in Interactive /\ procs[p].pc = "done")
      => Len(SnacksOf(p, {"SUCCESS", "ERROR"})) = 1

\* A test-connection action reported a configuration error and made no request.
RefusedTest(p) ==
  /\ RequestsOf(p) = <<>>
  /\ procs[p].pc = "done"
  /\ SnacksOf(p, {"SUCCESS", "ERROR"}) = <<Snack(p, "ERROR")>>

UnderTest(p) ==
  IF procs[p].arg.obj /\ Truthy(procs[p].arg.url) THEN procs[p].arg ELSE procs[p].cfg

C9_FailedRefreshKeepsTables ==
  [][\A p \in ProcIds :
       (procs[p].pc = "refresh" /\ procs'[p].pc # "refresh" /\ procs'[p].refreshed = "failed")
         => /\ projectsMap' = projectsMap
            /\ tagsMap' = tagsMap
            /\ snacks' = snacks
            /\ ~procs'[p].uncaught
            /\ procs'[p].pc = IF procs[p].kind = "init" THEN "done" ELSE "tasks"]_vars

\* C9 witness: the refresh of a bulk import failed after init had filled the
\* tables, and the import went on to write with the tables init had built.
C9_Witness ==
  \E p \in ProcIds :
    /\ procs[p].kind = "import" /\ procs[p].refreshed = "failed" /\ procs[p].pc = "fetch"
    /\ procs[1].refreshed = "ok"
    /\ projectsMap = BuildMap(HostSnapshot.projects)
    /\ tagsMap = BuildMap(HostSnapshot.tags)

\* The line of one task of an import, as the import's configuration and the
\* tables give it.
ImportLine(p, task) ==
  toLineProtocol(enrichTaskData(task, procs[p].cfg, procs[p].cfg, projectsMap, tagsMap,
                                procs[p].at),
                 procs[p].at)

\* The body of the k-th batch of 50 of the tasks `all`.
BatchBody(p, all, k) ==
  LET from == 50 * (k - 1) + 1
      to == IF 50 * k < Len(all) THEN 50 * k ELSE Len(all)
  IN Join([j \in 1..(to - from + 1) |-> ImportLine(p, all[from + j - 1])], <<"\n">>)

\* C3: the k-th write of a bulk import carries the k-th run of 50 consecutive
\* tasks of the list (archived, then active), the last run being the rest; an
\* import of n tasks that ended in success (every write succeeded) has issued
\* exactly ceil(n / 50) writes.
C3_BatchesOfFifty ==
  \A p \in ProcIds :
    procs[p].kind = "import" =>
      LET reqs == RequestsOf(p)
          n == Len(procs[p].all)
      IN /\ \A k \in 1..Len(reqs) : reqs[k].body = BatchBody(p, procs[p].all, k)
         /\ (procs[p].pc = "done" /\ procs[p].result = "returned" /\ procs[p].refreshed # "")
              => /\ n = hostCounts.archived + hostCounts.active
                 /\ Len(reqs) = (n + 49) \div 50
                 /\ \A k \in 1..Len(reqs) : reqs[k].state = "ok"

\* C3 witness: an import of 120 tasks has ended in success with three writes.
C3_Witness ==
  \E p \in ProcIds :
    /\ procs[p].kind = "import" /\ procs[p].pc = "done" /\ procs[p].result = "returned"
    /\ Len(procs[p].all) >= 120
    /\ Len(RequestsOf(p)) = 3
    /\ Len(SnacksOf(p, {"SUCCESS"})) = 1

\* C4: a failed write of a bulk import is its last write; the import has
\* ended, with exactly one ERROR snack and no SUCCESS snack.
C4_FailedBatchAborts ==
  \A p \in ProcIds :
    procs[p].kind = "import" =>
      LET reqs == RequestsOf(p)
      IN \A k \in 1..Len(reqs) :
           reqs[k].state \in {"http", "net"}
             => /\ k = Len(reqs)
                /\ procs[p].pc = "done"
                /\ Len(SnacksOf(p, {"ERROR"})) = 1
                /\ SnacksOf(p, {"SUCCESS"}) = <<>>

\* C4 witness: the second of the three batches of an import failed.
C4_Witness ==
  \E p \in ProcIds :
    /\ procs[p].kind = "import" /\ Len(procs[p].all) >= 120
    /\ Len(RequestsOf(p)) = 2
    /\ RequestsOf(p)[1].state = "ok"
    /\ RequestsOf(p)[2].state = "http"

\* A point keeps a field: some field value is neither null nor undefined.
Survives(point) ==
  \E j \in 1..Len(point.fields) : point.fields[j].v.t \notin {"null", "undefined"}

RECURSIVE SplitLines(_)
\* The lines of a body: its pieces between line feeds.
SplitLines(body) ==
  IF \A i \in 1..Len(body) : body[i] # "\n" THEN <<body>>
  ELSE LET nl == CHOOSE i \in 1..Len(body) :
                   body[i] = "\n" /\ \A j \in 1..(i - 1) : body[j] # "\n"
       IN <<SubSeq(body, 1, nl - 1)>> \o SplitLines(SubSeq(body, nl + 1, Len(body)))

\* C8: a point without a surviving field encodes to the empty string, and no
\* other point does; the lines of a body sent are the lines of the payload's
\* points that keep a field, in order; a call none of whose points keeps a
\* field makes no request, and returns normally when its configuration is
\* complete or is the stored one.
C8_EmptyPointsNeverSent ==
  /\ probe.fn = "toLineProtocol" => (probe.out = <<>> <=> ~Survives(probe.points[1]))
  /\ probe.fn = "sendToGrafana" =>
       LET kept == SelectSeq(probe.points, Survives)
           useConfig == IF probe.cfg.obj THEN probe.cfg ELSE globalConfig
       IN /\ probe.send.kind = "fetch" =>
               /\ SplitLines(probe.send.body) = [k \in 1..Len(kept) |-> toLineProtocol(kept[k], now)]
               /\ \A k \in 1..Len(kept) : toLineProtocol(kept[k], now) # <<>>
          /\ kept = <<>> => probe.send.kind # "fetch"
          /\ (kept = <<>> /\ (Complete(useConfig) \/ ~probe.cfg.obj)) => probe.send.kind = "return"

\* C8 witness: a call with a complete configuration and two points, neither
\* keeping a field, has returned without a request.
C8_Witness ==
  /\ probe.fn = "sendToGrafana"
  /\ Len(probe.points) = 2
  /\ \A k \in 1..2 : ~Survives(probe.points[k])
  /\ Complete(probe.cfg)
  /\ probe.send.kind = "return"

Malformed == <<"<malformed>">>

RECURSIVE Unescape(_, _)
\* The string a reader of the line protocol takes from the quoted text q from
\* position i on: \\ is a backslash, \" a quote, a bare quote ends the string
\* and must end the text.
Unescape(q, i) ==
  IF i > Len(q) THEN Malformed
  ELSE IF q[i] = "\"" THEN (IF i = Len(q) THEN <<>> ELSE Malformed)
  ELSE IF q[i] = "\\" /\ i < Len(q) /\ q[i + 1] \in {"\\", "\""}
  THEN <<q[i + 1]>> \o Unescape(q, i + 2)
  ELSE <<q[i]>> \o Unescape(q, i + 1)

Unquote(q) == IF q # <<>> /\ q[1] = "\"" THEN Unescape(q, 2) ELSE Malformed

\* C10 (as claimed): un-escaping the quoted output of escapeStringField gives
\* the string back.
C10_StringFieldRoundTrips ==
  probe.fn = "escapeStringField" => Unquote(probe.out) = probe.str

C12_NoRetry ==
  \A p \in ProcIds :
    LET reqs == RequestsOf(p)
    IN /\ procs[p].kind \in {"sync", "test"} => Len(reqs) <= 1
       /\ \A k, l \in 1..Len(reqs) : k # l => reqs[k].body # reqs[l].body
       /\ \A k \in 1..Len(reqs) :
            /\ reqs[k].state \in {"http", "net"}
                 => k = Len(reqs) /\ procs[p].pc = "done" /\ procs[p].result = "threw"
            /\ (reqs[k].state = "ok" /\ k = Len(reqs) /\ procs[p].pc = "done")
                 => procs[p].result = "returned"

\* C12 witness: two hooks have each made one request; one got a non-success
\* status, the other failed in the network, and both calls have ended.
C12_Witness ==
  \E p, q \in ProcIds :
    /\ procs[p].kind = "sync" /\ procs[q].kind = "sync"
    /\ procs[p].pc = "done" /\ procs[q].pc = "done"
    /\ Len(RequestsOf(p)) = 1 /\ RequestsOf(p)[1].state = "http"
    /\ Len(RequestsOf(q)) = 1 /\ RequestsOf(q)[1].state = "net"

\* C13 (as claimed): the calls of enrichTaskData on the same task, the same
\* configuration and the same tables all give the same point, whatever dates
\* the task carries.
C13_EnrichDeterministic ==
  probe.fn = "enrichTaskData" =>
    \A i, j \in 1..Len(probe.points) : probe.points[i] = probe.points[j]

\* C13 (amended): such calls give the same measurement, tags and fields; the
\* timestamp is the same when the task carries an updated or a created date,
\* and is the time of each call when it carries neither.
C13_EnrichDeterministicButClock ==
  probe.fn = "enrichTaskData" =>
    \A i, j \in 1..Len(probe.points) :
      LET a == probe.points[i]
          b == probe.points[j]
      IN /\ a.measurement = b.measurement /\ a.tags = b.tags /\ a.fields = b.fields
         /\ IF Truthy(probe.task.updated) \/ Truthy(probe.task.created)
            THEN a.timestamp = b.timestamp
            ELSE a.timestamp = Num(probe.at[i])

\* C13 witness: a task without dates has been enriched twice with the tables
\* filled, the second time later than the first, and the two points differ in
\* their timestamps only.
C13_Witness ==
  /\ probe.fn = "enrichTaskData"
  /\ Len(probe.points) = 2
  /\ probe.at[1] < probe.at[2]
  /\ probe.pMap # <<>>
  /\ probe.task = TaskBare
  /\ probe.points[1].timestamp # probe.points[2].timestamp
  /\ probe.points[1].fields = probe.points[2].fields

\* What a step that ignores a message leaves alone: the configuration, the
\* tables, the debounce timer, the requests, the host's storage, the snacks,
\* and every invocation (none is started, so nothing is persisted later).
MessageIgnored ==
  UNCHANGED <<globalConfig, projectsMap, tagsMap, timers, updateTimeout, updates, requests,
              persisted, snacks, procs>>

\* The type of the message is, as it stands, one of the three control types.
TypeIsControl(msg) ==
  msg.data /\ msg.type.t = "string" /\ msg.type.s \in {T_SAVE, T_TEST, T_IMPORT}

\* The type of the message starts with PLUGIN_ and is one of the three control
\* types once surrounding white space is trimmed.
TypeTrimsToControl(msg) ==
  /\ msg.data /\ msg.type.t = "string"
  /\ StartsWith(msg.type.s, T_PREFIX)
  /\ Trim(msg.type.s) \in {T_SAVE, T_TEST, T_IMPORT}

\* C14 (as claimed): handling a message that is malformed, or whose type is
\* not one of the three control types, changes nothing.
C14_OtherTypesIgnored ==
  [][\A msg \in Msgs : (~TypeIsControl(msg) /\ HandleGlobalMessage(msg)) => MessageIgnored]_vars

\* C14 (amended): handling a message that is malformed, or whose type does not
\* start with PLUGIN_ or is none of the three control types once trimmed,
\* changes nothing.
C14_UnrecognisedIgnored ==
  [][\A msg \in Msgs : (~TypeTrimsToControl(msg) /\ HandleGlobalMessage(msg)) => MessageIgnored]_vars

\* C14 witness: with a complete configuration active and a save waiting for
\* the host's storage, a message was handled that started nothing.
C14_Witness ==
  /\ Complete(globalConfig)
  /\ nMsgs > Cardinality({p \in ProcIds : procs[p].src = "msg"})
  /\ \E p \in ProcIds : procs[p].kind = "save" /\ procs[p].pc = "persist"

\* The invocations of syncTask made by the taskComplete and currentTaskChange
\* hooks; they are numbered in the order their events arrived.
Immediate == {p \in ProcIds : procs[p].kind = "sync"
                              /\ procs[p].src \in {"taskComplete", "currentTaskChange"}}

\* C15: of two writes made for taskComplete and currentTaskChange events, the
\* one issued first belongs to the event that arrived first.
C15_WritesInArrivalOrder ==
  \A k, l \in 1..Len(requests) :
    (k < l /\ requests[k].proc \in Immediate /\ requests[l].proc \in Immediate)
      => requests[k].proc < requests[l].proc

\* C15 witness: a taskComplete and a currentTaskChange event have each
\* produced a write, and the write of the later event has completed while
\* that of the earlier event is still in flight.
C15_Witness ==
  \E k, l \in 1..Len(requests) :
    /\ k < l
    /\ requests[k].proc \in Immediate /\ requests[l].proc \in Immediate
    /\ procs[requests[k].proc].src # procs[requests[l].proc].src
    /\ requests[k].state = "inflight" /\ requests[l].state = "ok"

\* String.prototype.endsWith
EndsWith(str, suffix) ==
  Len(str) >= Len(suffix) /\ SubSeq(str, Len(str) - Len(suffix) + 1, Len(str)) = suffix

\* C16: the error thrown for a response that is not ok carries the status
\* code and the status text, and ends with the body read: the whole body when
\* it has at most 500 characters, else its first 500 characters and "...",
\* and never its first 501.
C16_UpstreamErrorExcerpt ==
  (probe.fn = "response" /\ probe.response.readable) =>
    LET body == probe.response.body
    IN /\ Includes(probe.out, NatToStr(probe.response.status))
       /\ Includes(probe.out, probe.response.statusText)
       /\ IF Len(body) <= 500
          THEN EndsWith(probe.out, body)
          ELSE /\ EndsWith(probe.out, SubSeq(body, 1, 500) \o <<".", ".", ".">>)
               /\ ~Includes(probe.out, SubSeq(body, 1, 501))

\* C16 witness: a 404 response with a body of 501 characters has been turned
\* into its error.
C16_Witness ==
  /\ probe.fn = "response"
  /\ probe.response.status = 404
  /\ probe.response.readable
  /\ Len(probe.response.body) = 501
  /\ probe.out # <<>>

RECURSIVE Escaped(_)
\* The text with one backslash before each of its spaces, commas and equals
\* signs.
Escaped(str) ==
  IF str = <<>> THEN <<>>
  ELSE (IF Head(str) \in {" ", ",", "="} THEN <<"\\", Head(str)>> ELSE <<Head(str)>>)
         \o Escaped(Tail(str))

\* The tags of a point that stay: those whose value is neither null,
\* undefined nor the empty string, in the order the point holds them.
StayingTags(point) ==
  SelectSeq(point.tags, LAMBDA e : e.v.t \notin {"null", "undefined"} /\ e.v # Str(<<>>))

\* The fields of a point that stay, in order.
StayingFields(point) ==
  SelectSeq(point.fields, LAMBDA e : e.v.t \notin {"null", "undefined"})

RECURSIVE Separators(_, _, _)
\* The positions, from i on, of the spaces of a line that separate its
\* sections: those neither preceded by a backslash nor inside a quoted
\* string.
Separators(line, i, quoted) ==
  IF i > Len(line) THEN <<>>
  ELSE IF line[i] = "\\" THEN Separators(line, i + 2, quoted)
  ELSE IF line[i] = "\"" THEN Separators(line, i + 1, ~quoted)
  ELSE IF line[i] = " " /\ ~quoted THEN <<i>> \o Separators(line, i + 1, quoted)
  ELSE Separators(line, i + 1, quoted)

\* C17: the line of a point that keeps a field is its escaped measurement,
\* then a comma and the staying tags as key=value joined by commas if any tag
\* stays, one space, the staying fields as key=value joined by commas, one
\* space, and the timestamp; keys, tag values and the measurement are
\* escaped; and the line has exactly two separating spaces.
C17_LineShape ==
  (probe.fn = "toLineProtocol" /\ Survives(probe.points[1])) =>
    LET point == probe.points[1]
        tags == StayingTags(point)
        fields == StayingFields(point)
        tagSection ==
          Join([i \in 1..Len(tags) |->
                  Escaped(tags[i].k) \o <<"=">> \o Escaped(JsString(tags[i].v))], <<",">>)
        fieldSection ==
          Join([i \in 1..Len(fields) |->
                  Escaped(fields[i].k) \o <<"=">> \o FieldValue(fields[i].v)], <<",">>)
        ts == IF point.timestamp.t = "number" THEN point.timestamp.n ELSE now
    IN /\ probe.out =
            Escaped(JsString(point.measurement))
              \o (IF tags = <<>> THEN <<>> ELSE <<",">> \o tagSection)
              \o <<" ">> \o fieldSection \o <<" ">> \o NatToStr(ts)
       /\ Len(Separators(probe.out, 1, FALSE)) = 2
       /\ probe.out[Len(probe.out)] # " "

\* C17 witness: a point whose measurement holds a space, a comma and an equals
\* sign, with tags that stay around tags that are dropped, has been encoded.
C17_Witness ==
  /\ probe.fn = "toLineProtocol"
  /\ probe.points[1] \in SpecialPoints
  /\ Len(JsString(probe.points[1].measurement)) > 1
  /\ Len(StayingTags(probe.points[1])) = 2
  /\ probe.out # <<>>

\* C18: every write of a bulk import but its last has completed with
\* success, so the write of a batch is issued only after the write of the
\* batch before it succeeded, and at most one write of the import is in
\* flight.
C18_BatchesSequential ==
  \A p \in ProcIds :
    procs[p].kind = "import" =>
      LET reqs == RequestsOf(p)
      IN /\ \A k \in 1..(Len(reqs) - 1) : reqs[k].state = "ok"
         /\ Cardinality({k \in 1..Len(reqs) : reqs[k].state = "inflight"}) <= 1

\* C18 witness: the third write of an import of 120 tasks is in flight.
C18_Witness ==
  \E p \in ProcIds :
    /\ procs[p].kind = "import" /\ procs[p].pc = "fetch"
    /\ Len(procs[p].all) >= 120
    /\ Len(RequestsOf(p)) = 3
    /\ RequestsOf(p)[3].state = "inflight"

\* A request is a write to the URL of the configuration (precision=ms added
\* unless given), with its token, of a heartbeat of its measurement.
WrittenWith(request, cfg, t) ==
  /\ request.url = TargetUrl(JsString(cfg.url))
  /\ request.token = JsString(cfg.token)
  /\ request.body = toLineProtocol(Heartbeat(cfg, t), t)

\* A step in which the test-connection p starts or goes on.
TestActs(p) == procs'[p].kind = "test" /\ (p > Len(procs) \/ procs'[p] # procs[p])

TablePairs ==
  {[projectsMap |-> <<>>, tagsMap |-> <<>>]} \cup
  {[projectsMap |-> BuildMap(HostSnapshotAt(p).projects),
    tagsMap |-> BuildMap(HostSnapshotAt(p).tags)] :
     p \in {q \in ProcIds : procs[q].kind \in {"init", "import"}}}

\* The line of the task of the hook s, as enriched with the tables `pair`.
HookLine(s, pair) ==
  toLineProtocol(enrichTaskData(procs[s].task, procs[s].cfg, procs[s].cfg,
                                pair.projectsMap, pair.tagsMap, procs[s].at),
                 procs[s].at)

\* C20: the two tables are at every moment the pair of one refresh (or both
\* empty as at the start), and every task a hook enriched and sent carries
\* the project and the tag names of one such pair, whatever refreshes and
\* imports were suspended around it.
C20_TablesFromOneRefresh ==
  /\ [projectsMap |-> projectsMap, tagsMap |-> tagsMap] \in TablePairs
  /\ \A s \in ProcIds :
       procs[s].kind = "sync" =>
         \A k \in 1..Len(RequestsOf(s)) :
           \E pair \in TablePairs : RequestsOf(s)[k].body = HookLine(s, pair)

\* C20 witness: a hook has sent a task enriched with the tables of an
\* import's refresh, which replaced those of init's refresh, while a second
\* import waits for its own refresh.
C20_Witness ==
  \E s \in ProcIds, p \in ProcIds, q \in ProcIds :
    /\ procs[1].refreshed = "ok"
    /\ procs[p].kind = "import" /\ procs[p].refreshed = "ok"
    /\ procs[q].kind = "import" /\ procs[q].pc = "refresh"
    /\ procs[s].kind = "sync" /\ Len(RequestsOf(s)) = 1
    /\ RequestsOf(s)[1].body =
         HookLine(s, [projectsMap |-> BuildMap(HostSnapshotAt(p).projects),
                      tagsMap |-> BuildMap(HostSnapshotAt(p).tags)])
    /\ RequestsOf(s)[1].body #
         HookLine(s, [projectsMap |-> BuildMap(HostSnapshotAt(1).projects),
                      tagsMap |-> BuildMap(HostSnapshotAt(1).tags)])

\* The save-config messages handled so far that carried a configuration.
SavesWithConfig == {p \in ProcIds : procs[p].kind = "save" /\ procs[p].arg.obj}

\* C22 (as claimed): once a save-config message carrying a configuration has
\* been handled, the active configuration is the one of the last such
\* message, whatever completes meanwhile (the load of init, a persist that
\* fails or succeeds, a test).
C22_SavedConfigStays ==
  SavesWithConfig # {} =>
    globalConfig = procs[CHOOSE p \in SavesWithConfig : \A q \in SavesWithConfig : q <= p].arg

\* C21: when a control message is dispatched to the listeners of several
\* instances, the most recently loaded instance processes it and every
\* older instance is left exactly as it was: same configuration, nothing
\* more awaited, no request, no snack.
C21_OnlyNewestActs ==
  [][nMsgs' = nMsgs + 1 =>
       LET n == Len(instances)
       IN /\ \A i \in 1..(n - 1) : instances'[i] = instances[i]
          /\ instances'[n].handled = Append(instances[n].handled, nMsgs')]_vars

\* C21 witness: three instances are loaded, the last two in the same
\* millisecond; a save-config message came when all three listened, and the
\* third instance alone processed it, took its configuration and persisted it.
C21_Witness ==
  /\ Len(instances) = 3
  /\ instances[2].INSTANCE_ID.at = instances[3].INSTANCE_ID.at
  /\ instances[1].handled = <<>> /\ instances[1].globalConfig # CfgComplete
  /\ instances[2].handled = <<>> /\ instances[2].globalConfig # CfgComplete
  /\ instances[3].handled = <<1>> /\ instances[3].globalConfig = CfgComplete
  /\ persisted = Json(CfgComplete)

====
